---- MODULE Spec2Model ----
(***************************************************************************)
(* Model of ros/src/twist_controller/dbw_node.py: the DBWNode control      *)
(* loop, the five subscriber callbacks that write the input cache, the     *)
(* cross-track-error estimator and the actuation publisher.                *)
(*                                                                         *)
(* The loop runs in the main thread; rospy runs the subscriber callbacks   *)
(* in other threads.  A step of the model is one attribute read or write   *)
(* of the cache, or one publication, so that every interleaving of the     *)
(* callbacks with the loop is a behaviour of the model.                    *)
(***************************************************************************)
EXTENDS Integers, Sequences, FiniteSets, TLC

(***************************************************************************)
(* Bounds and input domains                                                *)
(***************************************************************************)
\* Velocities carried by the messages range over 0..MaxVal.
MaxVal == 1

\* Python's None, and a present value v.  A cache field is None or Some(v).
None == <<>>
Some(v) == <<v>>
Val(o) == o[1]

Vel == 0 .. MaxVal

\* std_msgs/Bool messages on /vehicle/dbw_enabled.
BoolMsgs == {[data |-> b] : b \in BOOLEAN}

\* TwistStamped messages on /twist_cmd, reduced to twist.linear.x and
\* twist.angular.z.  No two messages of the domain share a linear or an
\* angular value, so a (linear, angular) pair identifies its message.
TwistMsgs == {[linear |-> k, angular |-> 2 * k] : k \in Vel}

\* TwistStamped messages on /current_velocity, reduced to twist.linear.x.
VelocityMsgs == {[linear |-> k] : k \in Vel}

\* PoseStamped messages on /current_pose, reduced to pose.position.(x, y).
PoseMsgs == {[x |-> 5, y |-> 2], [x |-> 5, y |-> -2]}

\* Index of the waypoint that gives the direction of travel.
offset == 10

\* Poses at most MaxLateral to either side of the x axis, alongside the
\* first 2 * offset + 1 waypoints of a path that follows the axis.
MaxLateral == 2
GridPoses ==
    {<<x, y>> : x \in 0 .. 2 * offset, y \in -MaxLateral .. MaxLateral}

\* The straight path (0,0), (1,0), ..., (n-1,0); a waypoint is modelled by
\* the [x, y] of its pose.pose.position.
StraightPath(n) == [i \in 1 .. n |-> <<i - 1, 0>>]

\* Lane messages on /final_waypoints: one path too short to hold the
\* waypoint of index offset, and one of 2 * offset + 1 waypoints.
LaneMsgs == {[waypoints |-> StraightPath(offset)],
             [waypoints |-> StraightPath(2 * offset + 1)]}

(***************************************************************************)
(* State                                                                   *)
(***************************************************************************)
VARIABLES
    \* the input cache (attributes of DBWNode)
    dbw_enabled,           \* None or Some(Bool message)
    current_velocity,      \* None or Some(number)
    current_ang_velocity,  \* None, never written
    linear_velocity,       \* None or Some(number)
    angular_velocity,      \* None or Some(number)
    current_position,      \* None or Some(<<x, y>>)
    waypoints,             \* None or Some(sequence of <<x, y>>)
    \* the twist_cb thread: the message whose callback has executed line 121
    \* and not yet line 122, else None
    twist_msg,
    \* rospy.is_shutdown()
    shutdown,
    \* the loop thread
    pc,                    \* the line the loop is about to execute
    gate,                  \* the operands of the test of lines 100-103
    present,               \* the tuple of the test of line 105
    positions,             \* local of calculate_cte (line 139)
    cte,                   \* local cte of loop
    args,                  \* arguments evaluated at lines 110-112
    result,                \* None or Some(what controller.control returned)
    sent,                  \* messages published in the current iteration
    \* history of the current iteration: the dbw_enabled object that line
    \* 100 read (None before), whether the test of lines 101-103 passed, and
    \* whether the test of line 105 found current_position and waypoints
    tick

cache == <<dbw_enabled, current_velocity, current_ang_velocity,
           linear_velocity, angular_velocity, current_position, waypoints>>
locals == <<gate, present, positions, cte, args, result>>
vars == <<cache, twist_msg, shutdown, pc, locals, sent, tick>>

\* The process is running: the loop has neither returned nor raised.
Running == pc \notin {"return", "IndexError"}

(***************************************************************************)
(* Subscriber callbacks (lines 117-131)                                    *)
(***************************************************************************)
dbw_enabled_cb(msg) ==
    /\ Running
    /\ dbw_enabled' = Some(msg)
    /\ UNCHANGED <<current_velocity, current_ang_velocity, linear_velocity,
                   angular_velocity, current_position, waypoints>>
    /\ UNCHANGED <<twist_msg, shutdown, pc, locals, sent, tick>>

\* line 121
twist_cb_linear(msg) ==
    /\ Running
    /\ twist_msg = None
    /\ linear_velocity' = Some(msg.linear)
    /\ twist_msg' = Some(msg)
    /\ UNCHANGED <<dbw_enabled, current_velocity, current_ang_velocity,
                   angular_velocity, current_position, waypoints>>
    /\ UNCHANGED <<shutdown, pc, locals, sent, tick>>

\* line 122
twist_cb_angular ==
    /\ Running
    /\ twist_msg # None
    /\ angular_velocity' = Some(Val(twist_msg).angular)
    /\ twist_msg' = None
    /\ UNCHANGED <<dbw_enabled, current_velocity, current_ang_velocity,
                   linear_velocity, current_position, waypoints>>
    /\ UNCHANGED <<shutdown, pc, locals, sent, tick>>

\* velocity_cb writing the measured speed to linear_velocity as well.
velocity_cb_both(msg) ==
    /\ Running
    /\ current_velocity' = Some(msg.linear)
    /\ linear_velocity' = Some(msg.linear)
    /\ UNCHANGED <<dbw_enabled, current_ang_velocity,
                   angular_velocity, current_position, waypoints>>
    /\ UNCHANGED <<twist_msg, shutdown, pc, locals, sent, tick>>

\* velocity_cb storing `msg.twist.linear.x or None': a speed of 0 empties
\* the field.
velocity_cb_or_none(msg) ==
    /\ Running
    /\ current_velocity' = IF msg.linear = 0 THEN None ELSE Some(msg.linear)
    /\ UNCHANGED <<dbw_enabled, current_ang_velocity, linear_velocity,
                   angular_velocity, current_position, waypoints>>
    /\ UNCHANGED <<twist_msg, shutdown, pc, locals, sent, tick>>

velocity_cb(msg) ==
    /\ Running
    /\ current_velocity' = Some(msg.linear)
    /\ UNCHANGED <<dbw_enabled, current_ang_velocity, linear_velocity,
                   angular_velocity, current_position, waypoints>>
    /\ UNCHANGED <<twist_msg, shutdown, pc, locals, sent, tick>>

pose_cb(msg) ==
    /\ Running
    /\ current_position' = Some(<<msg.x, msg.y>>)
    /\ UNCHANGED <<dbw_enabled, current_velocity, current_ang_velocity,
                   linear_velocity, angular_velocity, waypoints>>
    /\ UNCHANGED <<twist_msg, shutdown, pc, locals, sent, tick>>

waypoints_cb(msg) ==
    /\ Running
    /\ waypoints' = Some(msg.waypoints)
    /\ UNCHANGED <<dbw_enabled, current_velocity, current_ang_velocity,
                   linear_velocity, angular_velocity, current_position>>
    /\ UNCHANGED <<twist_msg, shutdown, pc, locals, sent, tick>>

\* The external shutdown signal that rospy.is_shutdown() reports.
signal_shutdown ==
    /\ Running
    /\ ~shutdown
    /\ shutdown' = TRUE
    /\ UNCHANGED <<cache, twist_msg, pc, locals, sent, tick>>

(***************************************************************************)
(* The cross-track-error estimator (lines 133-162)                         *)
(*                                                                         *)
(* The arithmetic is exact.  cos(angle) and sin(angle) of line 146-149 are *)
(* dx / r and dy / r for the translated waypoint (dx, dy) of index offset  *)
(* and r its length; the rotated coordinates are kept multiplied by r.     *)
(***************************************************************************)
Abs(n) == IF n < 0 THEN -n ELSE n

\* The length of (dx, dy), for the directions whose length is an integer.
Norm(dx, dy) ==
    CHOOSE r \in 0 .. (Abs(dx) + Abs(dy)) : r * r = dx * dx + dy * dy

\* lines 141-142 and 154: p - origin
Translate(p, origin) == <<p[1] - origin[1], p[2] - origin[2]>>

\* lines 146-150: the rotation, as [c |-> r cos(angle), s |-> r sin(angle),
\* r |-> r]; arctan2(0, 0) is 0.
Rotation(dx, dy) ==
    IF dx = 0 /\ dy = 0
    THEN [c |-> 1, s |-> 0, r |-> 1]
    ELSE [c |-> dx, s |-> dy, r |-> Norm(dx, dy)]

\* lines 151 and 155: np.dot(p, rotation) with rotation = [[c, -s], [s, c]],
\* multiplied by r.
Rotate(p, rot) == <<p[1] * rot.c + p[2] * rot.s, p[2] * rot.c - p[1] * rot.s>>

\* line 158: np.polyfit(xs, ys, deg=2), for points that lie on one parabola
\* (or line): the least-squares fit is then the polynomial through three
\* points of distinct abscissa.  The fit is given by these three points.
PolyFit(ps) ==
    CHOOSE t \in (DOMAIN ps) \X (DOMAIN ps) \X (DOMAIN ps) :
        /\ t[1] < t[2] /\ t[2] < t[3]
        /\ ps[t[1]][1] # ps[t[2]][1]
        /\ ps[t[1]][1] # ps[t[3]][1]
        /\ ps[t[2]][1] # ps[t[3]][1]

\* line 159: np.polyval(coefficients, x) as the fraction [num, den]
\* (Lagrange's form of the polynomial through the three points).
PolyVal(ps, t, x) ==
    LET x1 == ps[t[1]][1]  y1 == ps[t[1]][2]
        x2 == ps[t[2]][1]  y2 == ps[t[2]][2]
        x3 == ps[t[3]][1]  y3 == ps[t[3]][2]
    IN  [num |-> y1 * (x - x2) * (x - x3) * (x2 - x3)
                 - y2 * (x - x1) * (x - x3) * (x1 - x3)
                 + y3 * (x - x1) * (x - x2) * (x1 - x2),
         den |-> (x1 - x2) * (x1 - x3) * (x2 - x3)]

\* n / d for d # 0, rounded towards minus infinity.
Quotient(n, d) == IF d > 0 THEN n \div d ELSE (-n) \div (-d)

\* calculate_cte with the difference of line 162 taken the other way round.
calculate_cte_reversed(path, pose) ==
    LET origin == path[1]
        shifted == [i \in DOMAIN path |-> Translate(path[i], origin)]
        rot == Rotation(shifted[offset + 1][1], shifted[offset + 1][2])
        rotated_path == [i \in DOMAIN path |-> Rotate(shifted[i], rot)]
        rotated == Rotate(Translate(pose, origin), rot)
        coefficients == PolyFit(rotated_path)
        expected == PolyVal(rotated_path, coefficients, rotated[1])
        actual == rotated[2]
    IN  Quotient(expected.num - actual * expected.den, expected.den * rot.r)

\* lines 139-162, for a path of more than offset waypoints.
calculate_cte(path, pose) ==
    LET origin == path[1]
        shifted == [i \in DOMAIN path |-> Translate(path[i], origin)]
        rot == Rotation(shifted[offset + 1][1], shifted[offset + 1][2])
        rotated_path == [i \in DOMAIN path |-> Rotate(shifted[i], rot)]
        rotated == Rotate(Translate(pose, origin), rot)
        coefficients == PolyFit(rotated_path)
        expected == PolyVal(rotated_path, coefficients, rotated[1])
        actual == rotated[2]
    IN  Quotient(actual * expected.den - expected.num, expected.den * rot.r)

(***************************************************************************)
(* The motion controller and the published messages                        *)
(***************************************************************************)
\* controller.control (twist_controller.Controller): an uninterpreted
\* function of its four arguments.
Control(cv, lv, av, c) ==
    [throttle |-> <<"throttle", cv, lv, av, c>>,
     brake    |-> <<"brake", cv, lv, av, c>>,
     steering |-> <<"steering", cv, lv, av, c>>]

\* lines 165-168
ThrottleCmd(throttle) ==
    [topic |-> "/vehicle/throttle_cmd", enable |-> TRUE,
     pedal_cmd_type |-> "CMD_PERCENT", pedal_cmd |-> throttle]

\* lines 171-173
SteeringCmd(steer) ==
    [topic |-> "/vehicle/steering_cmd", enable |-> TRUE,
     steering_wheel_angle_cmd |-> steer]

\* lines 176-179
BrakeCmd(brake) ==
    [topic |-> "/vehicle/brake_cmd", enable |-> TRUE,
     pedal_cmd_type |-> "CMD_TORQUE", pedal_cmd |-> brake]

\* line 107: the Float32 that cte_pub.publish(cte) sends
Float32(x) == [topic |-> "/vehicle/cte", data |-> x]

ActuationTopics ==
    {"/vehicle/throttle_cmd", "/vehicle/steering_cmd", "/vehicle/brake_cmd"}

(***************************************************************************)
(* The control loop (lines 97-115) and publish (lines 164-180)             *)
(***************************************************************************)
\* Python's truth test of line 100 on the cached attribute: None is false;
\* a message object is true whatever its data field holds (genpy messages
\* define neither __nonzero__ nor __len__).
Truthy(o) == o # None

\* `None not in t' of lines 100 and 105
NoneNotIn(t) == \A i \in DOMAIN t : t[i] # None

NoTick == [dbw_enabled |-> None, ready |-> FALSE, pose_and_path |-> FALSE]

\* The locals of an iteration before the iteration assigns them.
Unassigned ==
    /\ gate' = <<>>
    /\ present' = <<>>
    /\ positions' = <<>>
    /\ cte' = 0
    /\ args' = <<>>
    /\ result' = None
    /\ sent' = <<>>
    /\ tick' = NoTick

\* line 99: while not rospy.is_shutdown()
loop_while ==
    /\ pc = "L99"
    /\ pc' = IF shutdown THEN "return" ELSE "L100"
    /\ UNCHANGED <<cache, twist_msg, shutdown, locals, sent, tick>>

\* line 100: self.dbw_enabled and ...; a false test ends the iteration
\* without reaching rate.sleep() of line 115
loop_gate_dbw_enabled ==
    /\ pc = "L100"
    /\ IF Truthy(dbw_enabled)
       THEN /\ gate' = <<dbw_enabled>>
            /\ tick' = [tick EXCEPT !.dbw_enabled = dbw_enabled]
            /\ pc' = "L101"
            /\ UNCHANGED <<present, positions, cte, args, result, sent>>
       ELSE /\ pc' = "L99"
            /\ Unassigned
    /\ UNCHANGED <<cache, twist_msg, shutdown>>

\* line 101
loop_gate_current_velocity ==
    /\ pc = "L101"
    /\ gate' = Append(gate, current_velocity)
    /\ pc' = "L102"
    /\ UNCHANGED <<cache, twist_msg, shutdown>>
    /\ UNCHANGED <<present, positions, cte, args, result, sent, tick>>

\* line 102
loop_gate_linear_velocity ==
    /\ pc = "L102"
    /\ gate' = Append(gate, linear_velocity)
    /\ pc' = "L103"
    /\ UNCHANGED <<cache, twist_msg, shutdown>>
    /\ UNCHANGED <<present, positions, cte, args, result, sent, tick>>

\* loop_gate_angular_velocity testing the truth of the three velocities
\* (`all(...)') instead of their presence: 0 is false.
loop_gate_truthy ==
    /\ pc = "L103"
    /\ IF \A v \in {gate[2], gate[3], angular_velocity} :
             v \notin {None, Some(0)}
       THEN /\ tick' = [tick EXCEPT !.ready = TRUE]
            /\ gate' = <<>>
            /\ cte' = 0
            /\ pc' = "L105"
            /\ UNCHANGED <<present, positions, args, result, sent>>
       ELSE /\ pc' = "L99"
            /\ Unassigned
    /\ UNCHANGED <<cache, twist_msg, shutdown>>

\* loop_gate_angular_velocity with self.angular_velocity left out of the
\* tuple that is tested.
loop_gate_without_angular_velocity ==
    /\ pc = "L103"
    /\ IF NoneNotIn(<<gate[2], gate[3]>>)
       THEN /\ tick' = [tick EXCEPT !.ready = TRUE]
            /\ gate' = <<>>
            /\ cte' = 0
            /\ pc' = "L105"
            /\ UNCHANGED <<present, positions, args, result, sent>>
       ELSE /\ pc' = "L99"
            /\ Unassigned
    /\ UNCHANGED <<cache, twist_msg, shutdown>>

\* lines 103-104: the last read of the gate, its `None not in' test, and
\* cte = 0. in the branch taken when it passes; the operands are dropped
loop_gate_angular_velocity ==
    /\ pc = "L103"
    /\ IF NoneNotIn(<<gate[2], gate[3], angular_velocity>>)
       THEN /\ tick' = [tick EXCEPT !.ready = TRUE]
            /\ gate' = <<>>
            /\ cte' = 0
            /\ pc' = "L105"
            /\ UNCHANGED <<present, positions, args, result, sent>>
       ELSE /\ pc' = "L99"
            /\ Unassigned
    /\ UNCHANGED <<cache, twist_msg, shutdown>>

\* line 105, first element of the tuple
loop_present_current_position ==
    /\ pc = "L105"
    /\ present' = <<current_position>>
    /\ pc' = "L105w"
    /\ UNCHANGED <<cache, twist_msg, shutdown>>
    /\ UNCHANGED <<gate, positions, cte, args, result, sent, tick>>

\* line 105, second element of the tuple and the test; the tuple is dropped
loop_present_waypoints ==
    /\ pc = "L105w"
    /\ LET found == NoneNotIn(<<present[1], waypoints>>)
       IN  /\ tick' = [tick EXCEPT !.pose_and_path = found]
           /\ pc' = IF found THEN "L140" ELSE "L110"
    /\ present' = <<>>
    /\ UNCHANGED <<cache, twist_msg, shutdown>>
    /\ UNCHANGED <<gate, positions, cte, args, result, sent>>

\* lines 139-146 of calculate_cte, called at line 106: self.waypoints is
\* read again; positions[offset, 1] raises IndexError on a path of at most
\* offset waypoints, and nothing catches it
calculate_cte_positions ==
    /\ pc = "L140"
    /\ positions' = Val(waypoints)
    /\ pc' = IF Len(positions') < offset + 1 THEN "IndexError" ELSE "L154"
    /\ UNCHANGED <<cache, twist_msg, shutdown>>
    /\ UNCHANGED <<gate, present, cte, args, result, sent, tick>>

\* lines 147-162 of calculate_cte and the assignment of line 106:
\* self.current_position is read again
calculate_cte_return ==
    /\ pc = "L154"
    /\ cte' = calculate_cte(positions, Val(current_position))
    /\ positions' = <<>>
    /\ pc' = "L107"
    /\ UNCHANGED <<cache, twist_msg, shutdown>>
    /\ UNCHANGED <<gate, present, args, result, sent, tick>>

\* line 107
loop_publish_cte ==
    /\ pc = "L107"
    /\ sent' = Append(sent, Float32(cte))
    /\ pc' = "L110"
    /\ UNCHANGED <<cache, twist_msg, shutdown, locals, tick>>

\* line 110
loop_arg_current_velocity ==
    /\ pc = "L110"
    /\ args' = <<current_velocity>>
    /\ pc' = "L111"
    /\ UNCHANGED <<cache, twist_msg, shutdown>>
    /\ UNCHANGED <<gate, present, positions, cte, result, sent, tick>>

\* line 111
loop_arg_linear_velocity ==
    /\ pc = "L111"
    /\ args' = Append(args, linear_velocity)
    /\ pc' = "L112"
    /\ UNCHANGED <<cache, twist_msg, shutdown>>
    /\ UNCHANGED <<gate, present, positions, cte, result, sent, tick>>

\* loop_control with the two desired velocities passed the other way round.
loop_control_swapped ==
    /\ pc = "L112"
    /\ args' = <<args[1], angular_velocity, args[2], cte>>
    /\ result' = Some(Control(args'[1], args'[2], args'[3], args'[4]))
    /\ pc' = "L169"
    /\ UNCHANGED <<cache, twist_msg, shutdown>>
    /\ UNCHANGED <<gate, present, positions, cte, sent, tick>>

\* lines 112-113 and 109: the last two arguments and the call
loop_control ==
    /\ pc = "L112"
    /\ args' = Append(Append(args, angular_velocity), cte)
    /\ result' = Some(Control(args'[1], args'[2], args'[3], args'[4]))
    /\ pc' = "L169"
    /\ UNCHANGED <<cache, twist_msg, shutdown>>
    /\ UNCHANGED <<gate, present, positions, cte, sent, tick>>

\* lines 114 and 165-169: publish(throttle, brake, steering), throttle
publish_throttle ==
    /\ pc = "L169"
    /\ sent' = Append(sent, ThrottleCmd(Val(result).throttle))
    /\ pc' = "L174"
    /\ UNCHANGED <<cache, twist_msg, shutdown, locals, tick>>

\* lines 171-174
publish_steer ==
    /\ pc = "L174"
    /\ sent' = Append(sent, SteeringCmd(Val(result).steering))
    /\ pc' = "L180"
    /\ UNCHANGED <<cache, twist_msg, shutdown, locals, tick>>

\* lines 176-180
publish_brake ==
    /\ pc = "L180"
    /\ sent' = Append(sent, BrakeCmd(Val(result).brake))
    /\ pc' = "L115"
    /\ UNCHANGED <<cache, twist_msg, shutdown, locals, tick>>

\* line 115: rate.sleep(), inside the branch of line 100
loop_rate_sleep ==
    /\ pc = "L115"
    /\ pc' = "L99"
    /\ Unassigned
    /\ UNCHANGED <<cache, twist_msg, shutdown>>

(***************************************************************************)
(* Specification                                                           *)
(***************************************************************************)
\* lines 86-95: the cache is empty when __init__ calls loop()
Init ==
    /\ dbw_enabled = None
    /\ current_velocity = None
    /\ current_ang_velocity = None
    /\ linear_velocity = None
    /\ angular_velocity = None
    /\ current_position = None
    /\ waypoints = None
    /\ twist_msg = None
    /\ shutdown = FALSE
    /\ pc = "L99"
    /\ gate = <<>>
    /\ present = <<>>
    /\ positions = <<>>
    /\ cte = 0
    /\ args = <<>>
    /\ result = None
    /\ sent = <<>>
    /\ tick = NoTick

Next ==
    \/ \E msg \in BoolMsgs : dbw_enabled_cb(msg)
    \/ \E msg \in TwistMsgs : twist_cb_linear(msg)
    \/ twist_cb_angular
    \/ \E msg \in VelocityMsgs : velocity_cb(msg)
    \/ \E msg \in PoseMsgs : pose_cb(msg)
    \/ \E msg \in LaneMsgs : waypoints_cb(msg)
    \/ signal_shutdown
    \/ loop_while
    \/ loop_gate_dbw_enabled
    \/ loop_gate_current_velocity
    \/ loop_gate_linear_velocity
    \/ loop_gate_angular_velocity
    \/ loop_present_current_position
    \/ loop_present_waypoints
    \/ calculate_cte_positions
    \/ calculate_cte_return
    \/ loop_publish_cte
    \/ loop_arg_current_velocity
    \/ loop_arg_linear_velocity
    \/ loop_control
    \/ publish_throttle
    \/ publish_steer
    \/ publish_brake
    \/ loop_rate_sleep

Spec == Init /\ [][Next]_vars

\* The loop running on a cache that the callbacks filled before its first
\* iteration and leave alone afterwards: every field is absent or holds
\* the value of one message.
TickInit ==
    /\ dbw_enabled \in {None} \cup {Some(m) : m \in BoolMsgs}
    /\ current_velocity \in {None} \cup {Some(m.linear) : m \in VelocityMsgs}
    /\ current_ang_velocity = None
    /\ \/ linear_velocity = None /\ angular_velocity = None
       \/ \E m \in TwistMsgs : /\ linear_velocity = Some(m.linear)
                                /\ angular_velocity = Some(m.angular)
    /\ current_position \in {None} \cup {Some(p) : p \in GridPoses}
    /\ waypoints \in {None} \cup {Some(m.waypoints) : m \in LaneMsgs}
    /\ twist_msg = None
    /\ shutdown = FALSE
    /\ pc = "L99"
    /\ gate = <<>>
    /\ present = <<>>
    /\ positions = <<>>
    /\ cte = 0
    /\ args = <<>>
    /\ result = None
    /\ sent = <<>>
    /\ tick = NoTick

TickNext ==
    \/ loop_while
    \/ loop_gate_dbw_enabled
    \/ loop_gate_current_velocity
    \/ loop_gate_linear_velocity
    \/ loop_gate_angular_velocity
    \/ loop_present_current_position
    \/ loop_present_waypoints
    \/ calculate_cte_positions
    \/ calculate_cte_return
    \/ loop_publish_cte
    \/ loop_arg_current_velocity
    \/ loop_arg_linear_velocity
    \/ loop_control
    \/ publish_throttle
    \/ publish_steer
    \/ publish_brake
    \/ loop_rate_sleep

TickSpec == TickInit /\ [][TickNext]_vars

(***************************************************************************)
(* Properties                                                              *)
(***************************************************************************)
\* The actuation commands published so far in the current iteration.
Actuation == SelectSeq(sent, LAMBDA m : m.topic \in ActuationTopics)

\* The diagnostic CTE values published so far in the current iteration.
Diagnostics == SelectSeq(sent, LAMBDA m : m.topic = "/vehicle/cte")

\* The gate check of the current iteration read an enable message whose
\* value is true and found the three velocities set.
GateActive ==
    /\ tick.dbw_enabled # None
    /\ Val(tick.dbw_enabled).data = TRUE
    /\ tick.ready

\* The current step publishes an actuation command.
PublishesActuation ==
    /\ Len(sent') = Len(sent) + 1
    /\ sent'[Len(sent')].topic \in ActuationTopics

\* An iteration that passed the gate of lines 100-103 has done its work: it
\* waits at rate.sleep(), or an exception has ended it.
TickOver == pc \in {"L115", "IndexError"}

\* The twist message of the most recently completed twist_cb, None before
\* the first: angular_velocity is written by the last line of twist_cb, and
\* its value identifies the message.
CompletedTwist ==
    IF angular_velocity = None
    THEN None
    ELSE Some(CHOOSE m \in TwistMsgs : m.angular = Val(angular_velocity))

\* C1: an actuation command is published in an iteration only if the gate
\* check of that iteration read an enable value that is true and found
\* current_velocity, linear_velocity and angular_velocity set.
C1_GateSafety == Actuation # <<>> => GateActive

\* C2: an iteration whose gate check read an enable message carrying false
\* publishes no throttle, steering or brake command.
C2_DisableStopsActuation ==
    [][(tick.dbw_enabled # None /\ Val(tick.dbw_enabled).data = FALSE)
          => ~PublishesActuation]_vars

\* C3: when calculate_cte has read a path of fewer than offset + 1
\* waypoints, no exception leaves the iteration and its CTE is 0.
C3_ShortPathRecoverable ==
    (positions # <<>> /\ Len(positions) < offset + 1)
        => (pc # "IndexError" /\ cte = 0)

\* C4: the (linear, angular) pair passed to controller.control is the pair
\* of one twist message.
C4_MotionRequestNotTorn ==
    result # None =>
        \E m \in TwistMsgs : /\ args[2] = Some(m.linear)
                             /\ args[3] = Some(m.angular)

\* C5: the loop comes back to the test of line 99 only from rate.sleep():
\* no two gate checks follow each other without a period wait in between.
C5_WaitEveryIteration ==
    [][(pc' = "L99" /\ pc # "L99") => pc = "L115"]_vars

\* C6: an iteration that passed the gate has published, when its work is
\* over, exactly one throttle, one steering and one brake command carrying
\* the values the controller returned.
C6_AllThreeCommands ==
    TickOver =>
        /\ result # None
        /\ Actuation = <<ThrottleCmd(Val(result).throttle),
                         SteeringCmd(Val(result).steering),
                         BrakeCmd(Val(result).brake)>>

\* C7: an iteration that passed the gate has published a diagnostic CTE,
\* when its work is over, if and only if it found both current_position and
\* waypoints; otherwise its CTE is 0.
C7_DiagnosticIffPoseAndPath ==
    TickOver =>
        /\ (Diagnostics # <<>>) <=> tick.pose_and_path
        /\ ~tick.pose_and_path => cte = 0

\* C8: in an iteration whose gate check did not read a true enable value
\* with the three velocities set, the controller is not invoked,
\* calculate_cte is not invoked and no diagnostic CTE is published.
C8_NoComputationWhenInactive ==
    ~GateActive =>
        /\ result = None
        /\ pc \notin {"L140", "L154", "L107", "IndexError"}
        /\ Diagnostics = <<>>

\* C9: a read of the desired velocity by the loop returns the value of the
\* most recently completed twist_cb.
C9_ReadsLastCompletedWrite ==
    [][(pc = "L111" /\ pc' = "L112")
          => (CompletedTwist # None
              /\ args'[2] = Some(Val(CompletedTwist).linear))]_vars

\* C10: the loop has ended only if shutdown was signalled.
C10_EndsOnlyOnShutdown == ~Running => shutdown


\* C11: on the straight path (0,0), (1,0), ..., (2 * offset, 0),
\* calculate_cte returns the lateral offset y of the pose (x, y), and the
\* opposite value for the mirrored pose (x, -y).
C11_StraightPathCte ==
    (pc = "L107" /\ waypoints = Some(StraightPath(2 * offset + 1))) =>
        LET pose == Val(current_position)
        IN  /\ cte = pose[2]
            /\ calculate_cte(Val(waypoints), <<pose[1], -pose[2]>>) = -cte

\* C11 happens: the pose (5, 2) on the straight path has given CTE 2.
C11_Witness ==
    /\ pc = "L107"
    /\ waypoints = Some(StraightPath(2 * offset + 1))
    /\ current_position = Some(<<5, 2>>)
    /\ cte = 2


\* The diagnostic CTE published in the current iteration, 0 when none was.
DiagnosticOrZero == IF Diagnostics # <<>> THEN Diagnostics[1].data ELSE 0

WrittenFields ==
    <<dbw_enabled, current_velocity, linear_velocity, angular_velocity,
      current_position, waypoints>>

C14_NoAbsentArgument ==
    /\ \A i \in DOMAIN args : i <= 3 => args[i] # None
    /\ pc \in {"L140", "L154"} =>
          (waypoints # None /\ current_position # None)

\* C14 happens: the controller has been invoked while a twist_cb has
\* written linear_velocity and not yet angular_velocity.
C14_Witness ==
    /\ twist_msg # None
    /\ result # None
    /\ Len(args) = 4


InputsWritten ==
    {n \in {"enable", "motion request", "velocity", "position", "path"} :
        \/ n = "enable" /\ dbw_enabled' # dbw_enabled
        \/ n = "motion request" /\ (\/ linear_velocity' # linear_velocity
                                    \/ angular_velocity' # angular_velocity)
        \/ n = "velocity" /\ current_velocity' # current_velocity
        \/ n = "position" /\ current_position' # current_position
        \/ n = "path" /\ waypoints' # waypoints}

\* C16: a step of the loop changes no cache field; any other step changes
\* the field or fields of at most one input; linear_velocity changes only
\* in the first statement of twist_cb and angular_velocity only in its
\* second, both to the values of the message of that twist_cb; and
\* current_ang_velocity never changes.
C16_OneWriterPerInput ==
    [][/\ pc' # pc => cache' = cache
       /\ Cardinality(InputsWritten) <= 1
       /\ linear_velocity' # linear_velocity =>
             /\ twist_msg = None /\ twist_msg' # None
             /\ linear_velocity' = Some(Val(twist_msg').linear)
             /\ angular_velocity' = angular_velocity
       /\ angular_velocity' # angular_velocity =>
             /\ twist_msg # None /\ twist_msg' = None
             /\ angular_velocity' = Some(Val(twist_msg).angular)
             /\ linear_velocity' = linear_velocity
       /\ current_ang_velocity' = current_ang_velocity]_vars

\* C16 happens: every callback has written its field and an iteration that
\* ran calculate_cte and the controller is publishing.
C16_Witness ==
    /\ \A i \in DOMAIN WrittenFields : WrittenFields[i] # None
    /\ pc = "L180"
    /\ Len(Diagnostics) = 1

====
